---- MODULE Spec2Model ----
(***************************************************************************)
(* A model of the 3d-ct-viewer pipeline: the DICOM element parser          *)
(* (DicomParser.parseDicom), the volume assembler                          *)
(* (DicomParser.processDicomFolder), the atlas packer (loadVolume), the    *)
(* atlas sampler and the ray marcher of the fragment shaders, and the      *)
(* listeners, cameras and render methods of the renderer classes.          *)
(*                                                                         *)
(* Buffers are sequences of bytes; JavaScript offsets are 0-based, so the  *)
(* byte at offset o of a buffer b is b[o + 1].                             *)
(***************************************************************************)
EXTENDS Integers, Sequences, FiniteSets, TLC

VARIABLES
    pc,            \* position of the component under study
    buf,           \* parseDicom: arrayBuffer
    offset,        \* parseDicom: offset
    metadata,      \* parseDicom: metadata, a set of <<tag, value>> pairs
    pixelData,     \* parseDicom: pixelData
    rows,          \* parseDicom: rows
    columns,       \* parseDicom: columns
    elem,          \* parseDicom: the locals of the last loop iteration
    files,         \* processDicomFolder: files
    fileIdx,       \* processDicomFolder: the number of files the for loop has taken
    slices,        \* processDicomFolder: slices
    result,        \* processDicomFolder: the volume returned or the error thrown
    volumeData,    \* renderer: this.volumeData
    volumeTexture, \* renderer: this.volumeTexture
    textureData,   \* renderer: the texels uploaded by texImage2D
    textureLayout, \* renderer: this.textureLayout
    sample,        \* shader: the lookups of the last sampleVolume call
    zoom,          \* renderer: this.zoom, in thousandths
    rotationX,     \* renderer: this.rotationX, in hundredths of a radian
    rotationY,     \* renderer: this.rotationY, in hundredths of a radian
    threshold,     \* renderer: this.threshold
    opacity,       \* renderer: this.opacity, in thousandths
    windowLevel,   \* renderer: this.windowLevel, in thousandths
    windowWidth,   \* renderer: this.windowWidth, in thousandths
    v_texCoord,    \* fragment: v_texCoord, in thousandths
    rayOrigin,     \* fragment: rayOrigin, in thousandths
    rayDir,        \* fragment: rayDir, in thousandths
    tNear,         \* fragment: tNear, in thousandths
    tFar,          \* fragment: tFar, in thousandths
    colorAccum,    \* fragment: colorAccum, <<rgb, a>> in thousandths (r = g = b)
    marchI,        \* fragment: the loop counter i
    gl_FragColor,  \* fragment: gl_FragColor, <<rgb, a>> in thousandths
    isDragging,    \* renderer: this.isDragging
    lastMouseX,    \* renderer: this.lastMouseX, in pixels
    lastMouseY,    \* renderer: this.lastMouseY, in pixels
    cameraPosition, \* VolumeRenderer: this.cameraPosition, in thousandths
    cameraRotation, \* renderer: this.cameraRotation, in hundredths of a radian
    cameraTarget,  \* VolumeRenderer: this.cameraTarget, in thousandths
    currentSlice,  \* SimpleSliceRenderer: this.currentSlice, in thousandths
    uniforms,      \* render: the uniforms and the texture of the last draw call
    event          \* canvas: the last event dispatched to a listener

parserVars == <<buf, offset, metadata, pixelData, rows, columns, elem>>

folderVars == <<files, fileIdx, slices, result>>

atlasVars == <<volumeData, volumeTexture, textureData, textureLayout, sample>>

cameraVars == <<zoom, rotationX, rotationY, threshold, opacity, windowLevel, windowWidth>>

fragVars == <<v_texCoord, rayOrigin, rayDir, tNear, tFar, colorAccum, marchI, gl_FragColor>>

inputVars == <<isDragging, lastMouseX, lastMouseY, cameraPosition, cameraRotation,
               cameraTarget, currentSlice, uniforms, event>>

rayVars == <<cameraVars, fragVars, inputVars>>

(***************************************************************************)
(* Bounds of the model.                                                    *)
(***************************************************************************)
MaxElems == 2      \* elements per generated stream
MaxTrunc == 3      \* bytes cut from the end of a generated stream
MaxFiles == 3      \* files handed to processDicomFolder
MaxSide  == 2      \* width and height of a loaded volume
MaxDepth == 5      \* depth of a loaded volume
MaxZoom  == 5000   \* largest |zoom| a wheel event may reach, in thousandths
MaxTurn  == 400    \* largest |rotation| a drag may reach, in hundredths of a radian

(***************************************************************************)
(* Bytes, DataView reads, number formatting.                               *)
(***************************************************************************)
Zeros(n) == [i \in 1..n |-> 0]

RECURSIVE Concat(_)
Concat(ss) == IF ss = <<>> THEN <<>> ELSE Head(ss) \o Concat(Tail(ss))

Range(q) == {q[i] : i \in DOMAIN q}

byteLength(b) == Len(b)

\* DataView reads throw a RangeError when the read leaves the buffer.
InBounds(b, o, n) == o >= 0 /\ o + n <= byteLength(b)

getUint8(b, o) == b[o + 1]

\* A 16-bit read that takes the top bit as a sign, as getInt16 does.
getUint16_Signed(b, o) ==
    IF b[o + 2] >= 128 THEN b[o + 1] + 256 * b[o + 2] - 65536
    ELSE b[o + 1] + 256 * b[o + 2]

getUint16(b, o) == b[o + 1] + 256 * b[o + 2]

getUint32(b, o) == getUint16(b, o) + 65536 * getUint16(b, o + 2)

getInt16(b, o) ==
    IF getUint16(b, o) >= 32768 THEN getUint16(b, o) - 65536 ELSE getUint16(b, o)

getInt32(b, o) ==
    IF getUint16(b, o + 2) >= 32768
    THEN getUint16(b, o) + 65536 * (getUint16(b, o + 2) - 65536)
    ELSE getUint16(b, o) + 65536 * getUint16(b, o + 2)

\* Number.prototype.toString(16) writes the digits a..f in lower case.
HexDigit(d) ==
    <<"0", "1", "2", "3", "4", "5", "6", "7", "8", "9", "a", "b", "c", "d", "e", "f">>[d + 1]

RECURSIVE toString16(_)
toString16(n) ==
    IF n < 16 THEN <<HexDigit(n)>> ELSE toString16(n \div 16) \o <<HexDigit(n % 16)>>

RECURSIVE padStart4(_)
padStart4(s) == IF Len(s) >= 4 THEN s ELSE padStart4(<<"0">> \o s)

\* const tag = group + element;
TagAt(b, o) ==
    padStart4(toString16(getUint16(b, o))) \o padStart4(toString16(getUint16(b, o + 2)))

\* The string literals the parser compares the tag with.
TagPixelData      == <<"7", "F", "E", "0", "0", "0", "1", "0">>
TagRows           == <<"0", "0", "2", "8", "0", "0", "1", "0">>
TagColumns        == <<"0", "0", "2", "8", "0", "0", "1", "1">>
TagBitsAllocated  == <<"0", "0", "2", "8", "0", "1", "0", "0">>
TagWindowCenter   == <<"0", "0", "2", "8", "1", "0", "5", "0">>
TagWindowWidth    == <<"0", "0", "2", "8", "1", "0", "5", "1">>
TagInstanceNumber == <<"0", "0", "2", "0", "0", "0", "1", "3">>

\* Two-character VR codes, as the pair of their character codes.
VR_OB == <<79, 66>>
VR_OW == <<79, 87>>
VR_OF == <<79, 70>>
VR_SQ == <<83, 81>>
VR_UT == <<85, 84>>
VR_UN == <<85, 78>>
VR_US == <<85, 83>>

LongVRs == {VR_OB, VR_OW, VR_OF, VR_SQ, VR_UT, VR_UN}

VRAt(b, o) == <<getUint8(b, o + 4), getUint8(b, o + 5)>>

(***************************************************************************)
(* metadata: an object keyed by tag.                                       *)
(***************************************************************************)
MetaHas(m, k) == \E p \in m : p[1] = k

MetaGet(m, k) == (CHOOSE p \in m : p[1] = k)[2]

MetaPut(m, k, v) == {p \in m : p[1] # k} \cup {<<k, v>>}

\* metadata[k] || 0
MetaOrZero(m, k) == IF MetaHas(m, k) THEN MetaGet(m, k) ELSE 0

NullPixels == [kind |-> "null", data |-> <<>>]

(***************************************************************************)
(* parseDicom: one iteration of the element loop.                          *)
(***************************************************************************)
Min(a, b) == IF a < b THEN a ELSE b

Max(a, b) == IF a > b THEN a ELSE b

\* ArrayBuffer.prototype.slice(begin, end): both ends are clamped to the buffer.
slice(b, begin, end) ==
    LET first == Min(Max(begin, 0), byteLength(b))
        final == Min(Max(end, 0), byteLength(b))
    IN  IF final <= first THEN <<>> ELSE SubSeq(b, first + 1, final)

\* new Uint16Array(bytes): the little-endian 16-bit samples of the bytes.
Uint16Samples(bytes) ==
    [i \in 1..(Len(bytes) \div 2) |-> bytes[2 * i - 1] + 256 * bytes[2 * i]]

\* Lines 60-83: the length and the value offset of the element at offset o.
\* at is the value of the local offset when the read throws.
ReadLength(b, o, vr) ==
    IF vr \in LongVRs
    THEN \* "Implicit VR length is 4 bytes"
         IF ~InBounds(b, o + 6, 4)
         THEN [threw |-> TRUE, length |-> -1, valueOffset |-> -1, at |-> o + 6]
         ELSE LET lenAt == IF getUint32(b, o + 6) # 0 THEN o + 10 ELSE o + 6
              IN  IF ~InBounds(b, lenAt, 4)
                  THEN [threw |-> TRUE, length |-> -1, valueOffset |-> -1, at |-> lenAt]
                  ELSE [threw |-> FALSE, length |-> getUint32(b, lenAt),
                        valueOffset |-> lenAt + 4, at |-> lenAt + 4]
    ELSE \* "Explicit VR"
         IF vr \in LongVRs
         THEN IF ~InBounds(b, o + 8, 4)
              THEN [threw |-> TRUE, length |-> -1, valueOffset |-> -1, at |-> o + 8]
              ELSE [threw |-> FALSE, length |-> getUint32(b, o + 8),
                    valueOffset |-> o + 12, at |-> o + 12]
         ELSE IF ~InBounds(b, o + 6, 2)
              THEN [threw |-> TRUE, length |-> -1, valueOffset |-> -1, at |-> o + 6]
              ELSE [threw |-> FALSE, length |-> getUint16(b, o + 6),
                    valueOffset |-> o + 8, at |-> o + 8]

\* The result fields of the parser: what an element may change.
Fields(m, p, r, c) == [metadata |-> m, pixelData |-> p, rows |-> r, columns |-> c]

Thrown(f) == [threw |-> TRUE, fields |-> f]

Stored(f) == [threw |-> FALSE, fields |-> f]

\* The key created before the read.
StoreUint16_KeyFirst(b, f, tag, vo) ==
    IF ~InBounds(b, vo, 2) THEN Thrown([f EXCEPT !.metadata = MetaPut(f.metadata, tag, 0)])
    ELSE Stored([f EXCEPT !.metadata = MetaPut(f.metadata, tag, getUint16(b, vo))])

\* metadata[tag] = view.getUint16(valueOffset, true): the read comes first.
StoreUint16(b, f, tag, vo) ==
    IF ~InBounds(b, vo, 2) THEN Thrown(f)
    ELSE Stored([f EXCEPT !.metadata = MetaPut(f.metadata, tag, getUint16(b, vo))])

\* Lines 85-93: the pixel data element.
StorePixelData(b, f, vr, length, vo) ==
    IF vr = VR_OW \/ vr = VR_OB
    THEN IF MetaHas(f.metadata, TagBitsAllocated) /\ MetaGet(f.metadata, TagBitsAllocated) = 16
         THEN \* new Uint16Array(buffer) throws when the byte length is odd
              IF Len(slice(b, vo, vo + length)) % 2 = 1 THEN Thrown(f)
              ELSE Stored([f EXCEPT !.pixelData =
                       [kind |-> "Uint16Array", data |-> Uint16Samples(slice(b, vo, vo + length))]])
         ELSE Stored([f EXCEPT !.pixelData =
                       [kind |-> "Uint8Array", data |-> slice(b, vo, vo + length)]])
    ELSE Stored(f)

\* Lines 102-113: window center (signed) and window width (unsigned).
StoreWindow(b, f, tag, length, vo, signed) ==
    IF length = 2
    THEN IF ~InBounds(b, vo, 2) THEN Thrown(f)
         ELSE Stored([f EXCEPT !.metadata = MetaPut(f.metadata, tag,
                        IF signed THEN getInt16(b, vo) ELSE getUint16(b, vo))])
    ELSE IF length = 4
    THEN IF ~InBounds(b, vo, 4) THEN Thrown(f)
         ELSE Stored([f EXCEPT !.metadata = MetaPut(f.metadata, tag,
                        IF signed THEN getInt32(b, vo) ELSE getUint32(b, vo))])
    ELSE Stored(f)

\* Lines 85-116: the chain of tag comparisons.
StoreValue(b, f, tag, vr, length, vo) ==
    IF tag = TagPixelData THEN StorePixelData(b, f, vr, length, vo)
    ELSE IF tag = TagRows THEN
        LET r == StoreUint16(b, f, tag, vo)
        IN  IF r.threw THEN r
            ELSE Stored([r.fields EXCEPT !.rows = MetaGet(r.fields.metadata, tag)])
    ELSE IF tag = TagColumns THEN
        LET r == StoreUint16(b, f, tag, vo)
        IN  IF r.threw THEN r
            ELSE Stored([r.fields EXCEPT !.columns = MetaGet(r.fields.metadata, tag)])
    ELSE IF tag = TagBitsAllocated THEN StoreUint16(b, f, tag, vo)
    ELSE IF tag = TagWindowCenter THEN StoreWindow(b, f, tag, length, vo, TRUE)
    ELSE IF tag = TagWindowWidth THEN StoreWindow(b, f, tag, length, vo, FALSE)
    ELSE IF tag = TagInstanceNumber THEN StoreUint16(b, f, tag, vo)
    ELSE Stored(f)

\* The alignment byte added after every odd length, SQ and UT included.
NextOffset_PadAll(vr, length, vo) ==
    IF length % 2 = 1 THEN vo + length + 1 ELSE vo + length

\* Lines 118-124: the offset of the next element.
NextOffset(vr, length, vo) ==
    IF length % 2 = 1 /\ vr # VR_SQ /\ vr # VR_UT THEN vo + length + 1 ELSE vo + length

\* Lines 52-128: the body of the loop for the element at offset o.
ParseElement(b, o, f) ==
    LET tag == TagAt(b, o)
        vr  == VRAt(b, o)
        hd  == ReadLength(b, o, vr)
    IN  IF hd.threw
        THEN [threw |-> TRUE, offset |-> hd.at, fields |-> f,
              elem |-> [start |-> o, tag |-> tag, vr |-> vr, length |-> -1,
                        valueOffset |-> -1, threw |-> TRUE]]
        ELSE LET st == StoreValue(b, f, tag, vr, hd.length, hd.valueOffset)
             IN  [threw |-> st.threw,
                  offset |-> IF st.threw THEN hd.at
                             ELSE NextOffset(vr, hd.length, hd.valueOffset),
                  fields |-> st.fields,
                  elem |-> [start |-> o, tag |-> tag, vr |-> vr, length |-> hd.length,
                            valueOffset |-> hd.valueOffset, threw |-> st.threw]]

\* Line 51: while (offset < arrayBuffer.byteLength - 8)
LoopGuard(b, o) == o < byteLength(b) - 8

\* Lines 26-43: the offset of the first element.
Magic == <<68, 73, 67, 77>>   \* 'DICM'

\* The header accepted in a buffer of exactly 132 bytes.
StartOffset_AtLeast(b) ==
    IF byteLength(b) >= 132
    THEN IF SubSeq(b, 129, 132) = Magic THEN 132 ELSE 0
    ELSE 0

StartOffset(b) ==
    IF byteLength(b) > 132
    THEN IF SubSeq(b, 129, 132) = Magic THEN 132 ELSE 0
    ELSE 0

\* Lines 22-137: parseDicom as a function of the buffer.
RECURSIVE ParseFrom(_, _, _)
ParseFrom(b, o, f) ==
    IF ~LoopGuard(b, o) THEN f
    ELSE LET it == ParseElement(b, o, f)
         IN  IF it.threw THEN it.fields ELSE ParseFrom(b, it.offset, it.fields)

parseDicom(b) == ParseFrom(b, StartOffset(b), Fields({}, NullPixels, 0, 0))

NoElem == [start |-> -1, tag |-> <<>>, vr |-> <<>>, length |-> -1, valueOffset |-> -1,
           threw |-> FALSE]

(***************************************************************************)
(* Input streams: encoded elements, with or without the 132-byte header,   *)
(* cut short by up to MaxTrunc bytes.                                      *)
(***************************************************************************)
U16LE(n) == <<n % 256, n \div 256>>

U32LE(n) == U16LE(n % 65536) \o U16LE(n \div 65536)

\* Explicit-VR encoding, short form: tag, VR, 2-byte length, value.
ShortElem(g, e, vr, value) == U16LE(g) \o U16LE(e) \o vr \o U16LE(Len(value)) \o value

\* Explicit-VR encoding, long form: tag, VR, 2 reserved bytes, 4-byte length, value.
LongElem(g, e, vr, value) ==
    U16LE(g) \o U16LE(e) \o vr \o <<0, 0>> \o U32LE(Len(value)) \o value

\* The layout ReadLength accepts for a long VR: 4 non-zero bytes, then the length.
SkewElem(g, e, vr, value) ==
    U16LE(g) \o U16LE(e) \o vr \o <<1, 0, 0, 0>> \o U32LE(Len(value)) \o value

ElemRows(r)     == ShortElem(40, 16, VR_US, U16LE(r))
ElemColumns(c)  == ShortElem(40, 17, VR_US, U16LE(c))
ElemBits(n)     == ShortElem(40, 256, VR_US, U16LE(n))
ElemInstance(n) == ShortElem(32, 19, VR_US, U16LE(n))
ElemPixels(vr, bytes)     == LongElem(32736, 16, vr, bytes)
ElemPixelsSkew(vr, bytes) == SkewElem(32736, 16, vr, bytes)

ElemLib ==
    { ElemRows(1), ElemColumns(2), ElemBits(16), ElemInstance(3),
      ElemPixels(VR_OW, <<0, 0, 232, 3>>),              \* samples 0, 1000
      ElemPixelsSkew(VR_OB, <<7, 9>>),
      ShortElem(8, 24, <<85, 73>>, <<49, 46, 50>>),    \* UI, odd length
      LongElem(8, 8, VR_UN, <<5, 6>>),
      LongElem(8, 4416, VR_SQ, <<>>),
      ShortElem(40, 4176, <<83, 83>>, <<156, 255>>),   \* window center -100
      ShortElem(40, 4177, <<85, 76>>, <<144, 1, 0, 0>>), \* window width 400
      ShortElem(8, 5, <<67, 83>>, <<>>),               \* CS, length 0
      SkewElem(8, 4416, VR_UT, <<65>>),                \* UT, odd length
      U16LE(8) \o U16LE(96) \o <<67, 83>> \o <<255, 255>> } \* CS, length 65535, no value

ElemSeqs == UNION {[1..n -> ElemLib] : n \in 0..MaxElems}

Header == Zeros(128) \o Magic

Stream(withHeader, els, cut) ==
    LET full == (IF withHeader THEN Header ELSE <<>>) \o Concat(els)
    IN  SubSeq(full, 1, Len(full) - Min(cut, Len(full)))

Streams == {Stream(h, els, cut) : h \in BOOLEAN, els \in ElemSeqs, cut \in 0..MaxTrunc}

(***************************************************************************)
(* parseDicom as a state machine over one buffer.                          *)
(***************************************************************************)
ParserIdle ==
    /\ buf = <<>>
    /\ offset = 0
    /\ metadata = {}
    /\ pixelData = NullPixels
    /\ rows = 0
    /\ columns = 0
    /\ elem = NoElem

NoResult == [kind |-> "none"]

FolderIdle ==
    /\ files = <<>>
    /\ fileIdx = 0
    /\ slices = <<>>
    /\ result = NoResult

NoVolume == [data |-> <<>>, dimensions |-> <<0, 0, 0>>]

NoLayout == [defined |-> FALSE, width |-> 0, height |-> 0, slices |-> 0,
             volumeSize |-> <<0, 0, 0>>]

NoSample == [taken |-> FALSE]

\* The camera and the transfer settings after init (part_000 lines 20-29).
CameraIdle ==
    /\ zoom = 1000
    /\ rotationX = 0
    /\ rotationY = 0
    /\ threshold = 100
    /\ opacity = 800
    /\ windowLevel = 128000
    /\ windowWidth = 256000

\* No fragment is being computed.
FragIdle ==
    /\ v_texCoord = <<0, 0>>
    /\ rayOrigin = <<0, 0, 0>>
    /\ rayDir = <<0, 0, 0>>
    /\ tNear = 0
    /\ tFar = 0
    /\ colorAccum = <<0, 0>>
    /\ marchI = 0
    /\ gl_FragColor = <<0, 0>>

\* No frame has been drawn.
NoUniforms == [drawn |-> FALSE]

\* No event has been dispatched.
NoEvent == [type |-> "none"]

\* The interaction state after init (part_000 lines 34-36; volumerenderer.js
\* lines 29-31, 40-42 and 900).
InputIdle ==
    /\ isDragging = FALSE
    /\ lastMouseX = 0
    /\ lastMouseY = 0
    /\ cameraPosition = <<0, 0, 5000>>
    /\ cameraRotation = <<0, 0>>
    /\ cameraTarget = <<0, 0, 0>>
    /\ currentSlice = 500
    /\ uniforms = NoUniforms
    /\ event = NoEvent

\* The renderer after its constructor (init, lines 14-39).
AtlasIdle ==
    /\ volumeData = NoVolume
    /\ volumeTexture = "null"
    /\ textureData = <<>>
    /\ textureLayout = NoLayout
    /\ sample = NoSample
    /\ CameraIdle
    /\ FragIdle
    /\ InputIdle

InitDecode ==
    /\ pc = "start"
    /\ buf \in Streams
    /\ offset = 0
    /\ metadata = {}
    /\ pixelData = NullPixels
    /\ rows = 0
    /\ columns = 0
    /\ elem = NoElem
    /\ FolderIdle
    /\ AtlasIdle

\* Lines 26-48.
DetectHeader ==
    /\ pc = "start"
    /\ offset' = StartOffset(buf)
    /\ pc' = "loop"
    /\ UNCHANGED <<buf, metadata, pixelData, rows, columns, elem>>
    /\ UNCHANGED <<folderVars, atlasVars, rayVars>>

CurrentFields == Fields(metadata, pixelData, rows, columns)

\* Lines 51-124: an iteration that runs to its end.
ParseStep ==
    /\ pc = "loop"
    /\ LoopGuard(buf, offset)
    /\ LET it == ParseElement(buf, offset, CurrentFields)
       IN  /\ ~it.threw
           /\ offset' = it.offset
           /\ metadata' = it.fields.metadata
           /\ pixelData' = it.fields.pixelData
           /\ rows' = it.fields.rows
           /\ columns' = it.fields.columns
           /\ elem' = it.elem
    /\ UNCHANGED <<pc, buf>>
    /\ UNCHANGED <<folderVars, atlasVars, rayVars>>

\* A catch clause that throws the error on.
AfterCatch_Rethrow == "failed"

\* Lines 125-128: catch (e) { console.warn(...); break; } leads to the return.
AfterCatch == "returned"

\* Lines 125-128 and 131-136: an iteration that throws; catch, break, return.
ParseThrow ==
    /\ pc = "loop"
    /\ LoopGuard(buf, offset)
    /\ LET it == ParseElement(buf, offset, CurrentFields)
       IN  /\ it.threw
           /\ offset' = it.offset
           /\ metadata' = it.fields.metadata
           /\ pixelData' = it.fields.pixelData
           /\ rows' = it.fields.rows
           /\ columns' = it.fields.columns
           /\ elem' = it.elem
    /\ pc' = AfterCatch
    /\ UNCHANGED buf
    /\ UNCHANGED <<folderVars, atlasVars, rayVars>>

\* Lines 51 and 131-136: the loop condition fails; return.
ParseReturn ==
    /\ pc = "loop"
    /\ ~LoopGuard(buf, offset)
    /\ pc' = "returned"
    /\ UNCHANGED <<parserVars, folderVars, atlasVars, rayVars>>

NextDecode == DetectHeader \/ ParseStep \/ ParseThrow \/ ParseReturn

vars == <<pc, parserVars, folderVars, atlasVars, rayVars>>

SpecDecode == InitDecode /\ [][NextDecode]_vars

(***************************************************************************)
(* processDicomFolder.                                                     *)
(***************************************************************************)
\* Array.prototype.sort with the comparator of line 168: a stable sort.
RECURSIVE InsertStable(_, _)
InsertStable(sorted, x) ==
    IF sorted = <<>> THEN <<x>>
    ELSE IF x.instanceNumber - Head(sorted).instanceNumber < 0
         THEN <<x>> \o sorted
         ELSE <<Head(sorted)>> \o InsertStable(Tail(sorted), x)

RECURSIVE SortSlices(_)
SortSlices(ss) ==
    IF ss = <<>> THEN <<>>
    ELSE InsertStable(SortSlices(SubSeq(ss, 1, Len(ss) - 1)), ss[Len(ss)])

\* sliceData[i]: a read past the end of a typed array gives undefined, which a
\* typed array stores as 0.
SampleAt(data, i) == IF i + 1 <= Len(data) THEN data[i + 1] ELSE 0

\* Lines 186-194: volumeData[z * sliceSize + i] = sliceData[i]; an Uint8Array
\* keeps the low 8 bits of what it is given.
FillVolume(ss, sliceSize, is16Bit) ==
    [k \in 1..(sliceSize * Len(ss)) |->
        LET z == (k - 1) \div sliceSize
            i == (k - 1) % sliceSize
            v == SampleAt(ss[z + 1].data.data, i)
        IN  IF is16Bit THEN v % 65536 ELSE v % 256]

RECURSIVE SeqMax(_)
SeqMax(q) == IF Len(q) = 1 THEN q[1] ELSE Max(q[1], SeqMax(Tail(q)))

RECURSIVE SeqMin(_)
SeqMin(q) == IF Len(q) = 1 THEN q[1] ELSE Min(q[1], SeqMin(Tail(q)))

\* Math.round(x / range * 255) for x >= 0: the nearest integer, halves upwards.
RoundScaled(x, range) == (2 * 255 * x + range) \div (2 * range)

\* Lines 196-208.
Normalize(data) ==
    LET maxVal == SeqMax(data)
        minVal == SeqMin(data)
        range  == IF maxVal - minVal = 0 THEN 1 ELSE maxVal - minVal
    IN  [k \in 1..Len(data) |-> RoundScaled(data[k] - minVal, range)]

NoValidFiles == [kind |-> "error", message |-> "No valid DICOM files found"]

\* An empty volume returned in place of the error.
Assemble_EmptyVolume(ss) ==
    IF Len(ss) = 0 THEN [kind |-> "volume", data |-> <<>>, dimensions |-> <<0, 0, 0>>]
    ELSE [kind |-> "volume", data |-> <<>>, dimensions |-> <<0, 0, Len(ss)>>]

\* Lines 163-213: what follows the for loop.
Assemble(ss) ==
    IF Len(ss) = 0 THEN NoValidFiles
    ELSE LET sorted   == SortSlices(ss)
             r        == sorted[1].rows
             c        == sorted[1].columns
             depth    == Len(sorted)
             is16Bit  == sorted[1].data.kind = "Uint16Array"
             filled   == FillVolume(sorted, r * c, is16Bit)
         IN  [kind |-> "volume",
              data |-> IF is16Bit /\ Len(filled) > 0 THEN Normalize(filled) ELSE filled,
              dimensions |-> <<c, r, depth>>]

\* Line 149: dicomData.pixelData && dicomData.rows && dicomData.columns
Usable(d) == d.pixelData.kind # "null" /\ d.rows # 0 /\ d.columns # 0

\* Lines 150-156.
SliceOf(d) ==
    [data |-> d.pixelData, metadata |-> d.metadata, rows |-> d.rows,
     columns |-> d.columns, instanceNumber |-> MetaOrZero(d.metadata, TagInstanceNumber)]

\* Lines 145-160: the body of the for loop for one file.
TakeFile(ss, file) ==
    IF ~file.readable THEN ss               \* file.arrayBuffer() rejects: caught
    ELSE LET d == parseDicom(file.bytes)
         IN  IF Usable(d) THEN Append(ss, SliceOf(d)) ELSE ss

File(bytes) == [readable |-> TRUE, bytes |-> bytes]

Unreadable == [readable |-> FALSE, bytes |-> <<>>]

\* One slice of 1 row and 2 columns, as an explicit-VR stream.
SliceStream(bits, instance, pixelVR, pixelBytes) ==
    <<ElemInstance(instance), ElemRows(1), ElemColumns(2), ElemBits(bits),
      ElemPixels(pixelVR, pixelBytes)>>

FileA == File(Stream(TRUE, SliceStream(16, 1, VR_OW, <<0, 0, 232, 3>>), 0))     \* 0, 1000

FileB == File(Stream(TRUE, SliceStream(16, 2, VR_OW, <<244, 1, 208, 7>>), 0))   \* 500, 2000

FileC == File(Stream(FALSE, SliceStream(8, 2, VR_OB, <<10, 20>>), 0))

\* The same slice in the layout ReadLength accepts for OW.
FileD ==
    File(Stream(TRUE, <<ElemRows(1), ElemColumns(2), ElemBits(16),
                        ElemPixelsSkew(VR_OW, <<244, 1, 208, 7>>)>>, 0))

FileNoPixels == File(Stream(TRUE, <<ElemRows(1), ElemColumns(2)>>, 0))

FileCut == File(Stream(TRUE, SliceStream(16, 1, VR_OW, <<0, 0, 232, 3>>), 15))

\* An 8-bit slice without an instance number element.
FileE ==
    File(Stream(FALSE, <<ElemRows(1), ElemColumns(2), ElemBits(8),
                         ElemPixels(VR_OB, <<30, 40>>)>>, 0))

FileF == File(Stream(FALSE, SliceStream(8, 2, VR_OB, <<50, 60>>), 0))

\* 1 row x 2 columns with pixel data of 4 samples.
FileBig == File(Stream(FALSE, SliceStream(8, 1, VR_OB, <<1, 2, 3, 4>>), 0))

FileLib ==
    {FileA, FileB, FileC, FileD, FileE, FileF, FileBig, FileNoPixels, FileCut, Unreadable}

FileLists == UNION {[1..n -> FileLib] : n \in 0..MaxFiles}

InitFolder ==
    /\ pc = "files"
    /\ files \in FileLists
    /\ fileIdx = 0
    /\ slices = <<>>
    /\ result = NoResult
    /\ ParserIdle
    /\ AtlasIdle

\* Lines 144-161: one iteration of the for loop.
NextFile ==
    /\ pc = "files"
    /\ fileIdx < Len(files)
    /\ slices' = TakeFile(slices, files[fileIdx + 1])
    /\ fileIdx' = fileIdx + 1
    /\ UNCHANGED <<pc, files, result>>
    /\ UNCHANGED <<parserVars, atlasVars, rayVars>>

\* Lines 163-213.
Finish ==
    /\ pc = "files"
    /\ fileIdx = Len(files)
    /\ result' = Assemble(slices)
    /\ pc' = "settled"
    /\ UNCHANGED <<files, fileIdx, slices>>
    /\ UNCHANGED <<parserVars, atlasVars, rayVars>>

NextFolder == NextFile \/ Finish

SpecFolder == InitFolder /\ [][NextFolder]_vars

\* Lines 140-214: processDicomFolder as a function of the file list.
RECURSIVE TakeAll(_, _)
TakeAll(ss, fs) == IF fs = <<>> THEN ss ELSE TakeAll(TakeFile(ss, Head(fs)), Tail(fs))

processDicomFolder(fs) == Assemble(TakeAll(<<>>, fs))

(***************************************************************************)
(* Claims about parseDicom (SpecDecode).                                   *)
(***************************************************************************)

\* C1 (as stated): every element with a long-form VR that starts at offset o
\* has the little-endian 32-bit value at o+8 as its length and its value at
\* o+12, and the next element is read at o+12+length (plus the alignment byte).
C1_LongFormLayout ==
    (elem.start >= 0 /\ elem.vr \in LongVRs /\ ~elem.threw) =>
        /\ elem.valueOffset = elem.start + 12
        /\ InBounds(buf, elem.start + 8, 4)
        /\ elem.length = getUint32(buf, elem.start + 8)
        /\ offset = NextOffset(elem.vr, elem.length, elem.start + 12)

\* C7 (as stated): parseDicom does not return a Slice when the stream is cut
\* in the middle of an element or when no recognizable element was found.
C7_FailsOnBadStream ==
    pc = "returned" => (~elem.threw /\ metadata # {})

\* C7 (amended): parseDicom never fails; with a stream cut in the middle of an
\* element, or with no recognizable element, it ends by returning the fields
\* collected so far, which are rows = 0 and columns = 0 when no element was
\* recognized.
C7_AlwaysReturns ==
    /\ pc \in {"start", "loop", "returned"}
    /\ (pc = "returned" /\ metadata = {}) => (rows = 0 /\ columns = 0)

\* C7 witness: a stream cut inside an element, after which parseDicom returned.
C7_Witness == pc = "returned" /\ elem.threw /\ metadata = {}

\* C8: an iteration that raises an exception ends the parse without throwing
\* and leaves metadata, rows, columns and pixelData as the elements before it
\* left them.
C8_PartialResult ==
    [][(pc = "loop" /\ elem'.threw) =>
          /\ pc' = "returned"
          /\ metadata' = metadata
          /\ pixelData' = pixelData
          /\ rows' = rows
          /\ columns' = columns]_vars

\* C8 witness: the parse ended on an exception with fields of earlier elements.
C8_Witness == pc = "returned" /\ elem.threw /\ rows = 1 /\ MetaHas(metadata, TagRows)

\* C12 (as stated): once the pixel-data element (7FE0,0010) of a stream has
\* been read, with declared length L at o+8 and its L value bytes inside the
\* buffer, parseDicom holds a pixel buffer made of exactly those L bytes: 16-bit
\* samples when bits allocated = 16 was parsed before it, 8-bit samples otherwise.
C12_PixelBuffer ==
    LET o     == elem.start
        L     == getUint32(buf, o + 8)
        bytes == SubSeq(buf, o + 13, o + 12 + L)
    IN  (/\ o >= 0
         /\ ~elem.threw
         /\ elem.tag = TagAt(U16LE(32736) \o U16LE(16), 0)
         /\ elem.vr \in {VR_OW, VR_OB}
         /\ InBounds(buf, o + 8, 4)
         /\ InBounds(buf, o + 12, L)) =>
            pixelData =
                IF MetaOrZero(metadata, TagBitsAllocated) = 16
                THEN [kind |-> "Uint16Array", data |-> Uint16Samples(bytes)]
                ELSE [kind |-> "Uint8Array", data |-> bytes]

\* The elements of the library in their standard encoding with an even length.
ValidElems ==
    { ElemRows(1), ElemColumns(2), ElemBits(16), ElemInstance(3),
      ElemPixels(VR_OW, <<0, 0, 232, 3>>),
      LongElem(8, 8, VR_UN, <<5, 6>>),
      LongElem(8, 4416, VR_SQ, <<>>),
      ShortElem(40, 4176, <<83, 83>>, <<156, 255>>),
      ShortElem(40, 4177, <<85, 76>>, <<144, 1, 0, 0>>),
      ShortElem(8, 5, <<67, 83>>, <<>>) }

\* C13 (as stated): for a complete stream of valid elements, with or without
\* the header, short-form and long-form elements in any order, parseDicom
\* returns the rows, the columns and the instance number the stream encodes.
C13_RoundTrip ==
    pc = "returned" =>
        \A h \in BOOLEAN, els \in ElemSeqs :
            (Range(els) \subseteq ValidElems /\ buf = Stream(h, els, 0)) =>
                /\ ElemRows(1) \in Range(els) => rows = 1
                /\ ElemColumns(2) \in Range(els) => columns = 2
                /\ ElemInstance(3) \in Range(els) =>
                      MetaOrZero(metadata, TagInstanceNumber) = 3

\* C14: an element at offset o whose VR is not a long-form code has the
\* little-endian 16-bit value at o+6 as its length and its value at o+8, and
\* the next element is read at o+8+length, one byte further when the length is
\* odd; after an element with VR SQ or UT the next element is read at
\* valueOffset+length, without the extra byte, also when the length is odd.
C14_ShortFormLayout ==
    (elem.start >= 0 /\ ~elem.threw) =>
        /\ elem.vr \notin LongVRs =>
              /\ elem.length = buf[elem.start + 7] + 256 * buf[elem.start + 8]
              /\ elem.valueOffset = elem.start + 8
              /\ offset = elem.start + 8 + elem.length + (elem.length % 2)
        /\ elem.vr \in {VR_SQ, VR_UT} => offset = elem.valueOffset + elem.length

\* C14 witness: a short-form element (VR UI) of odd length 3 was read and the
\* cursor moved on to o+12.
C14_Witness ==
    /\ elem.start >= 0
    /\ ~elem.threw
    /\ elem.vr = <<85, 73>>
    /\ elem.length = 3
    /\ offset = elem.start + 12

\* C15 (as stated): parseDicom stops reading elements only when fewer than 8
\* bytes remain after the cursor (or an iteration raised an exception): an
\* element that starts exactly 8 bytes before the end of the buffer is parsed.
C15_StopsBelowEight ==
    pc = "returned" => (elem.threw \/ byteLength(buf) - offset < 8)

\* C16: parseDicom starts reading at offset 132 exactly when the buffer is
\* longer than 132 bytes and its bytes 128..131 are 'D', 'I', 'C', 'M'; in every
\* other case it starts at offset 0.
C16_HeaderDetection ==
    [][pc = "start" =>
          offset' =
              IF /\ Len(buf) >= 133
                 /\ buf[129] = 68 /\ buf[130] = 73 /\ buf[131] = 67 /\ buf[132] = 77
              THEN 132
              ELSE 0]_vars

\* C16 witness: reading started at offset 132 of a buffer with the header and
\* at least one element.
C16_Witness == pc = "loop" /\ elem = NoElem /\ offset = 132 /\ Len(buf) > 132

\* C27: the element loop of parseDicom terminates: an iteration that does not
\* throw runs only while offset < byteLength - 8 and moves the cursor forward
\* by at least 8 bytes, and an iteration that throws ends the loop.
C27_CursorAdvances ==
    [][pc = "loop" =>
          /\ pc' \in {"loop", "returned"}
          /\ pc' = "loop" => /\ offset < byteLength(buf) - 8
                             /\ offset' >= offset + 8
                             /\ ~elem'.threw
          /\ elem'.threw => pc' = "returned"]_vars

\* C27 witness: an iteration over an element of length 0 moved the cursor by
\* exactly 8 bytes and the loop goes on.
C27_Witness ==
    /\ pc = "loop"
    /\ elem.start >= 0
    /\ ~elem.threw
    /\ elem.length = 0
    /\ offset = elem.start + 8
    /\ LoopGuard(buf, offset)

(***************************************************************************)
(* Claims about processDicomFolder (SpecFolder).                           *)
(***************************************************************************)
\* The files of the library that hold a complete slice.
WellFormed == {FileA, FileB, FileC}

RECURSIVE Perms(_)
Perms(S) ==
    IF S = {} THEN {<<>>}
    ELSE UNION {{<<x>> \o p : p \in Perms(S \ {x})} : x \in S}

\* The file list taken in the order ord of its indices.
Reordered(fs, ord) == [i \in 1..Len(fs) |-> fs[ord[i]]]

\* C2 (as stated): the two 16-bit slices {0,1000} and {500,2000} give the
\* volume data {0,127} followed by {64,255}.
C2_NormalizeScenario ==
    (pc = "settled" /\ files = <<FileA, FileB>>) =>
        (result.kind = "volume" /\ result.data = <<0, 127, 64, 255>>)

\* C3 (as stated): every permutation of a list of valid slices gives a volume
\* with the same dimensions and data.
C3_OrderIndependent ==
    (pc = "settled" /\ Len(files) >= 1 /\ Range(files) \subseteq WellFormed) =>
        /\ result.kind = "volume"
        /\ \A ord \in Perms(1..Len(files)) :
              processDicomFolder(Reordered(files, ord)) = result

\* C9: processDicomFolder ends with the error, and with no volume, exactly when
\* no file gave a slice with pixel data, rows and columns.
C9_NoValidSlices ==
    pc = "settled" =>
        /\ result.kind \in {"error", "volume"}
        /\ result.kind = "error" <=>
              ~\E i \in 1..Len(files) :
                  files[i].readable /\ Usable(parseDicom(files[i].bytes))
        /\ result.kind = "error" => result = NoValidFiles

\* C9 witness: a list of corrupt and unreadable files ended with the error.
C9_Witness ==
    /\ pc = "settled"
    /\ result.kind = "error"
    /\ Len(files) >= 2
    /\ Range(files) = {FileCut, Unreadable}

\* The 8-bit files of the library that hold a complete slice, and all complete ones.
EightBit == {FileC, FileE, FileF}

Complete == WellFormed \cup EightBit

\* What each complete file encodes: its instance number (0 when the element is
\* absent) and its rows * columns = 2 samples.
SliceIn ==
    (FileA :> [instance |-> 1, samples |-> <<0, 1000>>]) @@
    (FileB :> [instance |-> 2, samples |-> <<500, 2000>>]) @@
    (FileC :> [instance |-> 2, samples |-> <<10, 20>>]) @@
    (FileE :> [instance |-> 0, samples |-> <<30, 40>>]) @@
    (FileF :> [instance |-> 2, samples |-> <<50, 60>>])

C18_VolumeLayout ==
    (pc = "settled" /\ Len(files) >= 1 /\ Range(files) \subseteq Complete) =>
        /\ result.kind = "volume"
        /\ result.dimensions = <<2, 1, Len(files)>>
        /\ Len(result.data) = 1 * 2 * Len(files)
        /\ Range(files) \subseteq EightBit =>
              \E ord \in Perms(1..Len(files)) :
                  \A z \in 0..(Len(files) - 1), i \in 0..1 :
                      result.data[z * 2 + i + 1] = SliceIn[files[ord[z + 1]]].samples[i + 1]

C10_FailuresIsolated ==
    LET valid == SelectSeq(files, LAMBDA f : f \in WellFormed)
    IN  (pc = "settled" /\ Len(valid) >= 1) =>
            /\ result.kind = "volume"
            /\ result.dimensions[3] = Len(valid)
            /\ result = processDicomFolder(valid)

(***************************************************************************)
(* The atlas: loadVolume and the shader's sampleVolume.                    *)
(***************************************************************************)
\* Math.ceil(Math.sqrt(d))
CeilSqrt(d) == CHOOSE n \in 0..d : n * n >= d /\ (n = 0 \/ (n - 1) * (n - 1) < d)

\* Math.ceil(a / b)
CeilDiv(a, b) == (a + b - 1) \div b

\* Math.floor in place of Math.ceil.
SlicesPerRow_Floor(depth) ==
    IF CeilSqrt(depth) * CeilSqrt(depth) = depth THEN CeilSqrt(depth) ELSE CeilSqrt(depth) - 1

\* Line 344.
SlicesPerRow(depth) == CeilSqrt(depth)

\* Line 345.
TileRows(depth, slicesPerRow) == CeilDiv(depth, slicesPerRow)

\* The row stride taken as the slice width instead of the texture width.
TexIdx_SliceStride(x, y, z, width, height, slicesPerRow) ==
    LET sliceRow == z \div slicesPerRow
        sliceCol == z % slicesPerRow
    IN  (sliceRow * height + y) * width + sliceCol * width + x

\* Lines 355-363: the texel index of voxel (x, y, z).
TexIdx(x, y, z, width, height, slicesPerRow) ==
    LET sliceRow == z \div slicesPerRow
        sliceCol == z % slicesPerRow
        texX     == sliceCol * width + x
        texY     == sliceRow * height + y
        texWidth == slicesPerRow * width
    IN  texY * texWidth + texX

\* Line 365: Math.max(0, Math.min(255, Math.round(v))) of an integer sample.
Clamp8(v) == Max(0, Min(255, v))

\* Lines 358-363: the texel index the loops compute for volumeIdx k.
IdxOfVoxel(k, v, slicesPerRow) ==
    LET width  == v.dimensions[1]
        height == v.dimensions[2]
    IN  TexIdx(k % width, (k % (width * height)) \div width, k \div (width * height),
               width, height, slicesPerRow)

\* Lines 351-368: textureData starts as zeros; the loops write it in the order
\* of volumeIdx, so a texel holds the value of the last voxel written to it (a
\* write outside a typed array is dropped).
WriteVoxels(size, v, slicesPerRow) ==
    LET count == v.dimensions[1] * v.dimensions[2] * v.dimensions[3]
        Writers(i) == {k \in 0..(count - 1) : IdxOfVoxel(k, v, slicesPerRow) = i}
        Last(S) == CHOOSE k \in S : \A j \in S : j <= k
    IN  [t \in 1..size |->
            IF Writers(t - 1) = {} THEN 0
            ELSE Clamp8(SampleAt(v.data, Last(Writers(t - 1))))]

\* Lines 341-368: the texture data of a volume.
TextureOf(v) ==
    LET slicesPerRow == SlicesPerRow(v.dimensions[3])
        texWidth     == slicesPerRow * v.dimensions[1]
        texHeight    == TileRows(v.dimensions[3], slicesPerRow) * v.dimensions[2]
    IN  WriteVoxels(texWidth * texHeight, v, slicesPerRow)

\* Lines 397-402.
LayoutOf(v) ==
    LET slicesPerRow == SlicesPerRow(v.dimensions[3])
    IN  [defined |-> TRUE,
         width |-> slicesPerRow * v.dimensions[1],
         height |-> TileRows(v.dimensions[3], slicesPerRow) * v.dimensions[2],
         slices |-> v.dimensions[3],
         volumeSize |-> v.dimensions]

\* The volumes offered to loadVolume: 8-bit samples, every side >= 1.
VolumeWith(w, h, d, seed, step) ==
    [data |-> [k \in 1..(w * h * d) |-> (seed + step * k) % 256],
     dimensions |-> <<w, h, d>>]

Volumes ==
    {VolumeWith(w, h, d, p[1], p[2]) :
        w \in 1..MaxSide, h \in 1..MaxSide, d \in 1..MaxDepth, p \in {<<0, 1>>, <<200, 7>>}}

\* Coordinates handed to sampleVolume, in thousandths: x and y, and z.
CoordsXY == {0, 400, 1000}

CoordsZ == {0, 1, 400, 999, 1000}

\* A clamp that leaves the upper end open.
ClampPos_NoUpper(c) == Max(c, 1)

\* clamp(pos, 0.001, 0.999), in thousandths.
ClampPos(c) == Min(Max(c, 1), 999)

\* texture2D(u_volumeTexture, uv).r for uv given in thousandths of a texel:
\* the texel that holds the coordinate, under CLAMP_TO_EDGE (lines 379-380).
Texel(tex, lay, u, v) ==
    LET texX == Min(Max(u \div 1000, 0), lay.width - 1)
        texY == Min(Max(v \div 1000, 0), lay.height - 1)
    IN  tex[texY * lay.width + texX + 1]

\* The tile that holds the texel coordinate (u, v).
TileAt(lay, u, v) ==
    ((v \div 1000) \div lay.volumeSize[2]) * (lay.width \div lay.volumeSize[1])
        + ((u \div 1000) \div lay.volumeSize[1])

\* sampleVolume (part_000 lines 71-110): pos in thousandths, the uniforms as
\* render sets them from textureLayout. value is in thousandths of a texel value.
sampleVolume(pos, lay, tex) ==
    LET px == ClampPos(pos[1])
        py == ClampPos(pos[2])
        pz == ClampPos(pos[3])
        sliceF       == pz * lay.slices                  \* thousandths
        sliceIdx     == sliceF \div 1000
        sliceFrac    == sliceF % 1000
        slicesPerRow == lay.width \div lay.volumeSize[1]
        row == sliceIdx \div slicesPerRow
        col == sliceIdx % slicesPerRow
        u1  == px * lay.volumeSize[1] + col * lay.volumeSize[1] * 1000
        v1  == py * lay.volumeSize[2] + row * lay.volumeSize[2] * 1000
        value1 == Texel(tex, lay, u1, v1)
        nextRow == (sliceIdx + 1) \div slicesPerRow
        nextCol == (sliceIdx + 1) % slicesPerRow
        u2  == px * lay.volumeSize[1] + nextCol * lay.volumeSize[1] * 1000
        v2  == py * lay.volumeSize[2] + nextRow * lay.volumeSize[2] * 1000
    IN  IF sliceFrac > 0 /\ sliceIdx < lay.slices - 1
        THEN [taken |-> TRUE, pos |-> pos, tiles |-> <<TileAt(lay, u1, v1), TileAt(lay, u2, v2)>>,
              frac |-> sliceFrac,
              value |-> value1 * (1000 - sliceFrac) + Texel(tex, lay, u2, v2) * sliceFrac]
        ELSE [taken |-> TRUE, pos |-> pos, tiles |-> <<TileAt(lay, u1, v1)>>,
              frac |-> sliceFrac, value |-> value1 * 1000]

\* The texture data of every volume on offer, computed once.
Textures == [v \in Volumes |-> TextureOf(v)]

InitAtlas ==
    /\ pc = "renderer"
    /\ ParserIdle
    /\ FolderIdle
    /\ AtlasIdle

\* A texImage2D call that leaves the texels beyond the new image in place, as
\* an update of a part of the old image would.
texImage2D_Keep(bound, old, data) ==
    IF bound = "null" THEN old
    ELSE data \o SubSeq(old, Len(data) + 1, Len(old))

\* gl.texImage2D on the texture bound by gl.bindTexture (lines 374-391): the
\* whole image of the bound texture is replaced; with no texture bound the
\* call is an INVALID_OPERATION and uploads nothing.
texImage2D(bound, old, data) ==
    IF bound = "null" THEN old ELSE data

\* loadVolume (part_000 lines 338-403).  It runs to completion: no listener
\* or animation frame runs between its statements.
LoadVolume ==
    /\ pc = "renderer"
    /\ \E v \in Volumes :
          /\ volumeData' = v
          /\ textureData' = texImage2D("texture", textureData, Textures[v])
          /\ textureLayout' = LayoutOf(v)
    /\ volumeTexture' = "texture"
    /\ sample' = NoSample
    /\ UNCHANGED <<pc, parserVars, folderVars, rayVars>>

\* One call of sampleVolume by a fragment of a frame drawn with the loaded
\* layout (render, lines 436-447; main calls it only when u_slices > 0).
Sample ==
    /\ pc = "renderer"
    /\ volumeTexture # "null"
    /\ textureLayout.defined
    /\ \E x \in CoordsXY, y \in CoordsXY, z \in CoordsZ :
          sample' = sampleVolume(<<x, y, z>>, textureLayout, textureData)
    /\ UNCHANGED <<pc, parserVars, folderVars, rayVars>>
    /\ UNCHANGED <<volumeData, volumeTexture, textureData, textureLayout>>

NextAtlas == LoadVolume \/ Sample

SpecAtlas == InitAtlas /\ [][NextAtlas]_vars

(***************************************************************************)
(* Claims about the atlas (SpecAtlas).                                     *)
(***************************************************************************)
\* The voxel of the loaded volume nearest to (px, py) (thousandths) in slice z.
VoxelNear(px, py, z) ==
    LET w == volumeData.dimensions[1]
        h == volumeData.dimensions[2]
    IN  volumeData.data[z * w * h + ((ClampPos(py) * h) \div 1000) * w
                        + ((ClampPos(px) * w) \div 1000) + 1]

C5_AtlasBijective ==
    textureLayout.defined =>
        LET w   == volumeData.dimensions[1]
            h   == volumeData.dimensions[2]
            d   == volumeData.dimensions[3]
            aw  == textureLayout.width
            ah  == textureLayout.height
            n   == aw \div w
            Vox == (0..(w - 1)) \X (0..(h - 1)) \X (0..(d - 1))
            At(p) == ((p[3] \div n) * h + p[2]) * aw + (p[3] % n) * w + p[1]
            Written(p) == TexIdx(p[1], p[2], p[3], w, h, SlicesPerRow(d))
        IN  /\ Len(textureData) = aw * ah
            /\ \A p \in Vox :
                  /\ Written(p) \in 0..(aw * ah - 1)
                  /\ textureData[At(p) + 1] = volumeData.data[p[3] * w * h + p[2] * w + p[1] + 1]
            /\ \A p, q \in Vox : p # q => Written(p) # Written(q)

\* C5 witness: a 2 x 2 x 5 volume with pairwise distinct samples was loaded.
C5_Witness ==
    /\ textureLayout.defined
    /\ volumeData.dimensions = <<2, 2, 5>>
    /\ Cardinality(Range(volumeData.data)) = 20

\* C6: after loadVolume the layout has tileCountPerRow = ceil(sqrt(depth)),
\* tileRows = ceil(depth / tileCountPerRow), width = tileCountPerRow * volume
\* width, height = tileRows * volume height, and room for every slice; with
\* depth 5 that is 3 by 2 tiles, and slice 4 is the tile at row 1, column 1.
C6_LayoutInvariant ==
    textureLayout.defined =>
        LET w  == volumeData.dimensions[1]
            h  == volumeData.dimensions[2]
            d  == volumeData.dimensions[3]
            n  == textureLayout.width \div w
            m  == textureLayout.height \div h
        IN  /\ textureLayout.slices = d
            /\ textureLayout.volumeSize = <<w, h, d>>
            /\ textureLayout.width = n * w
            /\ textureLayout.height = m * h
            /\ n * n >= d /\ (n - 1) * (n - 1) < d
            /\ m * n >= d /\ (m - 1) * n < d
            /\ d = 5 =>
                  /\ n = 3 /\ m = 2
                  /\ \A x \in 0..(w - 1), y \in 0..(h - 1) :
                        textureData[(1 * h + y) * textureLayout.width + 1 * w + x + 1]
                            = volumeData.data[4 * w * h + y * w + x + 1]

\* C6 witness: a volume of depth 5 was loaded into 3 by 2 tiles.
C6_Witness ==
    /\ textureLayout.defined
    /\ textureLayout.slices = 5
    /\ textureLayout.width = 3 * volumeData.dimensions[1]
    /\ textureLayout.height = 2 * volumeData.dimensions[2]

(***************************************************************************)
(* The fragment shader of VolumeRaycaster: main (part_000 lines 112-223).  *)
(* Floats are fixed-point numbers in thousandths, rounded to the nearest.  *)
(***************************************************************************)
\* n / d for d > 0, rounded to the nearest integer.
RoundDiv(n, d) == (2 * n + d) \div (2 * d)

\* The product of two numbers given in thousandths.
Mul(a, b) == RoundDiv(a * b, 1000)

\* floor(sqrt(n)) for n >= 0.
RECURSIVE SqrtBetween(_, _, _)
SqrtBetween(n, lo, hi) ==
    IF lo = hi THEN lo
    ELSE LET mid == (lo + hi + 1) \div 2
         IN  IF mid * mid <= n THEN SqrtBetween(n, mid, hi) ELSE SqrtBetween(n, lo, mid - 1)

ISqrt(n) == SqrtBetween(n, 0, 20000)

\* sin and cos of the angles on offer (hundredths of a radian), in thousandths.
SinCos == (0 :> <<0, 1000>>) @@ (50 :> <<479, 878>>) @@ (157 :> <<1000, 1>>)

sin(a) == SinCos[a][1]

cos(a) == SinCos[a][2]

\* Line 123: vec3(v_texCoord - 0.5, -2.0) * u_zoom
RayOriginOf(tc, z) == <<Mul(tc[1] - 500, z), Mul(tc[2] - 500, z), Mul(-2000, z)>>

\* Lines 140-144: rotX * v (mat3 is filled column by column).
RotX(v, a) ==
    <<v[1],
      Mul(cos(a), v[2]) + Mul(sin(a), v[3]),
      Mul(cos(a), v[3]) - Mul(sin(a), v[2])>>

\* Lines 133-137: rotY * v.
RotY(v, a) ==
    <<Mul(cos(a), v[1]) + Mul(sin(a), v[3]),
      v[2],
      Mul(cos(a), v[3]) - Mul(sin(a), v[1])>>

\* The value that stands for a float infinity.
Infinity == 1000 * 1000 * 1000

\* Lines 154-155: n / d in thousandths. GLSL ES leaves the result of a division
\* by zero unspecified: the IEEE result (an infinity with the sign of n) and 0
\* are the outcomes taken here.
Quotients(n, d) ==
    IF d > 0 THEN {RoundDiv(1000 * n, d)}
    ELSE IF d < 0 THEN {-RoundDiv(1000 * n, -d)}
    ELSE {0} \cup (IF n > 0 THEN {Infinity}
                   ELSE IF n < 0 THEN {-Infinity}
                   ELSE {Infinity, -Infinity})

\* Lines 150-161: the pairs <<tNear, tFar>> of the slab intersection of the ray
\* from o along d with the box [-0.5, 0.5]^3.
Slabs(o, d) ==
    {<<Max(Max(Min(a1, b1), Min(a2, b2)), Min(a3, b3)),
       Min(Min(Max(a1, b1), Max(a2, b2)), Max(a3, b3))>> :
        a1 \in Quotients(-500 - o[1], d[1]), b1 \in Quotients(500 - o[1], d[1]),
        a2 \in Quotients(-500 - o[2], d[2]), b2 \in Quotients(500 - o[2], d[2]),
        a3 \in Quotients(-500 - o[3], d[3]), b3 \in Quotients(500 - o[3], d[3])}

\* A test that leaves out tFar < 0.0.
Misses_NearOnly(tn, tf) == tn > tf

\* Line 163: if (tNear > tFar || tFar < 0.0)
Misses(tn, tf) == tn > tf \/ tf < 0

\* Line 170: tNear = max(0.0, tNear)
ClampNear(tn) == Max(0, tn)

\* A loop without the early exit on alpha.
Breaks_NoAlpha(tn, tf, acc) == tn >= tf

\* Line 177: if (tNear >= tFar || colorAccum.a >= 0.95) break;
Breaks(tn, tf, acc) == tn >= tf \/ acc[2] >= 950

\* Line 186: sampleVolume(volCoord), the red channel of the texel in [0, 1].
Density(c) == sampleVolume(c, textureLayout, textureData).value \div 255

\* Lines 189-193.
NormalizedDensity(density, level, width) ==
    LET windowMin == level - width \div 2
        windowMax == level + width \div 2
    IN  Min(Max(RoundDiv((density - windowMin) * 1000, windowMax - windowMin), 0), 1000)

\* Line 196: normalizedDensity > u_threshold / 255.0
AboveThreshold(nd, th) == nd * 255 > th * 1000

\* Lines 201-208: the values lighting can take at volCoord c. normalize of a
\* zero gradient is undefined: diff is then anything between 0 and 1. The dot
\* product of two unit vectors is at most 1.
Lightings(c) ==
    LET dx == Density(<<c[1] + 10, c[2], c[3]>>) - Density(<<c[1] - 10, c[2], c[3]>>)
        dy == Density(<<c[1], c[2] + 10, c[3]>>) - Density(<<c[1], c[2] - 10, c[3]>>)
        dz == Density(<<c[1], c[2], c[3] + 10>>) - Density(<<c[1], c[2], c[3] - 10>>)
        len == ISqrt(100 * (dx * dx + dy * dy + dz * dz))     \* ten times the length
    IN  IF len = 0 THEN {300, 1000}
        ELSE {300 + Mul(700, Min(Max(RoundDiv((dx + dy - dz) * 5770, len), 0), 1000))}

\* The voxel colour added without the weight 1 - colorAccum.a.
Composite_NoWeight(acc, nd, lighting, op) ==
    LET a   == Mul(nd, op)
        rgb == Mul(Mul(nd, lighting), a)
    IN  <<acc[1] + rgb, acc[2] + a>>

\* Lines 210-216: the voxel colour composited onto acc, front to back.
Composite(acc, nd, lighting, op) ==
    LET a   == Mul(nd, op)
        rgb == Mul(Mul(nd, lighting), a)
    IN  <<acc[1] + Mul(1000 - acc[2], rgb), acc[2] + Mul(1000 - acc[2], a)>>

\* Lines 181-217: the values of colorAccum after one iteration at parameter tn.
Marched(acc, o, d, tn) ==
    LET volCoord == <<o[1] + Mul(d[1], tn) + 500,
                      o[2] + Mul(d[2], tn) + 500,
                      o[3] + Mul(d[3], tn) + 500>>
        nd == NormalizedDensity(Density(volCoord), windowLevel, windowWidth)
    IN  IF AboveThreshold(nd, threshold)
        THEN {Composite(acc, nd, l, opacity) : l \in Lightings(volCoord)}
        ELSE {acc}

\* Line 222: clamp(colorAccum, 0.0, 1.0)
ClampColor(acc) == <<Min(Max(acc[1], 0), 1000), Min(Max(acc[2], 0), 1000)>>

\* The inputs of a fragment: pixel centres, camera values the wheel and drag
\* handlers can leave behind, the settings of init and settings that let
\* samples through, and two loaded volumes.
TexCoords == {<<125, 125>>, <<500, 500>>, <<875, 500>>}

Zooms == {-1000, 100, 1000, 3000}

Angles == DOMAIN SinCos

Settings ==
    { [threshold |-> 100, opacity |-> 800, windowLevel |-> 128000, windowWidth |-> 256000],
      [threshold |-> 10, opacity |-> 1000, windowLevel |-> 128000, windowWidth |-> 256000],
      [threshold |-> 0, opacity |-> 1000, windowLevel |-> 500, windowWidth |-> 1000] }

\* 4 x 4 x 4 voxels, all 0 except voxel (2, 2, 2) = 255.
PointVolume ==
    [data |-> [k \in 1..64 |-> IF k = 2 * 16 + 2 * 4 + 2 + 1 THEN 255 ELSE 0],
     dimensions |-> <<4, 4, 4>>]

RayVolumes == {VolumeWith(2, 2, 2, 200, 7), VolumeWith(1, 1, 3, 0, 1), PointVolume}

\* The texture data of the volumes on offer, computed once.
RayTextures == [v \in RayVolumes |-> TextureOf(v)]

\* A renderer with a volume loaded and a frame being drawn.
InitRay ==
    /\ pc = "frame"
    /\ ParserIdle
    /\ FolderIdle
    /\ \E v \in RayVolumes :
          /\ volumeData = v
          /\ textureData = RayTextures[v]
          /\ textureLayout = LayoutOf(v)
    /\ volumeTexture = "texture"
    /\ sample = NoSample
    /\ zoom \in Zooms
    /\ rotationX \in Angles
    /\ rotationY \in Angles
    /\ \E st \in Settings :
          /\ threshold = st.threshold
          /\ opacity = st.opacity
          /\ windowLevel = st.windowLevel
          /\ windowWidth = st.windowWidth
    /\ FragIdle
    /\ InputIdle

\* Lines 112-161 for u_slices > 0: the ray of one fragment and its intersection
\* with the bounding box.
Intersect ==
    /\ pc = "frame"
    /\ textureLayout.slices > 0
    /\ \E tc \in TexCoords :
          /\ v_texCoord' = tc
          /\ rayOrigin' = RotY(RotX(RayOriginOf(tc, zoom), rotationX), rotationY)
    /\ rayDir' = RotY(RotX(<<0, 0, 1000>>, rotationX), rotationY)
    /\ \E t \in Slabs(rayOrigin', rayDir') :
          /\ tNear' = t[1]
          /\ tFar' = t[2]
    /\ pc' = "intersected"
    /\ UNCHANGED <<colorAccum, marchI, gl_FragColor>>
    /\ UNCHANGED <<parserVars, folderVars, atlasVars, cameraVars, inputVars>>

\* Lines 163-167: the ray does not intersect the volume.
Miss ==
    /\ pc = "intersected"
    /\ Misses(tNear, tFar)
    /\ gl_FragColor' = <<0, 0>>
    /\ pc' = "done"
    /\ UNCHANGED <<v_texCoord, rayOrigin, rayDir, tNear, tFar, colorAccum, marchI>>
    /\ UNCHANGED <<parserVars, folderVars, atlasVars, cameraVars, inputVars>>

\* Lines 169-174: the ray enters the marching loop.
EnterMarch ==
    /\ pc = "intersected"
    /\ ~Misses(tNear, tFar)
    /\ tNear' = ClampNear(tNear)
    /\ colorAccum' = <<0, 0>>
    /\ marchI' = 0
    /\ pc' = "march"
    /\ UNCHANGED <<v_texCoord, rayOrigin, rayDir, tFar, gl_FragColor>>
    /\ UNCHANGED <<parserVars, folderVars, atlasVars, cameraVars, inputVars>>

\* Lines 176-220: one iteration of the marching loop.
MarchStep ==
    /\ pc = "march"
    /\ marchI < 200
    /\ ~Breaks(tNear, tFar, colorAccum)
    /\ colorAccum' \in Marched(colorAccum, rayOrigin, rayDir, tNear)
    /\ tNear' = tNear + 10
    /\ marchI' = marchI + 1
    /\ UNCHANGED <<pc, v_texCoord, rayOrigin, rayDir, tFar, gl_FragColor>>
    /\ UNCHANGED <<parserVars, folderVars, atlasVars, cameraVars, inputVars>>

\* Lines 176-178 and 222: the loop ends and the colour is written.
EndMarch ==
    /\ pc = "march"
    /\ (marchI >= 200 \/ Breaks(tNear, tFar, colorAccum))
    /\ gl_FragColor' = ClampColor(colorAccum)
    /\ pc' = "done"
    /\ UNCHANGED <<v_texCoord, rayOrigin, rayDir, tNear, tFar, colorAccum, marchI>>
    /\ UNCHANGED <<parserVars, folderVars, atlasVars, cameraVars, inputVars>>

NextRay == Intersect \/ Miss \/ EnterMarch \/ MarchStep \/ EndMarch

SpecRay == InitRay /\ [][NextRay]_vars

(***************************************************************************)
(* Claims about the fragment shader (SpecRay).                             *)
(***************************************************************************)
\* C20: a ray whose slab intersection gives tNear > tFar or tFar < 0 gets the
\* output (0,0,0,0) and no marching step; every other ray enters the marching
\* loop with tNear raised to 0 when it was negative, and with tFar as computed.
C20_MissIsTransparent ==
    [][pc = "intersected" =>
          IF tNear > tFar \/ tFar < 0
          THEN /\ pc' = "done"
               /\ gl_FragColor' = <<0, 0>>
               /\ marchI' = 0
               /\ colorAccum' = <<0, 0>>
          ELSE /\ pc' = "march"
               /\ tNear' = (IF tNear < 0 THEN 0 ELSE tNear)
               /\ tFar' = tFar]_vars

\* C20 witness: a ray that ends behind the camera (tNear <= tFar < 0) finished
\* with the transparent output and without a marching step.
C20_Witness ==
    /\ pc = "done"
    /\ tNear <= tFar
    /\ tFar < 0
    /\ marchI = 0
    /\ gl_FragColor = <<0, 0>>

\* C21: every step of the marching loop leaves the accumulated alpha at least
\* as large as it was and at most 1.0, for the thresholds in [0,255] and the
\* opacities in [0,1] on offer.
C21_AlphaMonotone ==
    [][(pc = "march" /\ pc' = "march") =>
          /\ colorAccum'[2] >= colorAccum[2]
          /\ colorAccum'[2] <= 1000]_vars

\* C21 witness: a ray through the point volume has accumulated an alpha
\* between 0.5 and 0.95 over several compositing steps.
C21_Witness ==
    /\ pc = "march"
    /\ volumeData = PointVolume
    /\ marchI >= 2
    /\ colorAccum[2] > 500
    /\ colorAccum[2] < 950

\* C22: the marching loop of a fragment takes at most 200 steps, each of which
\* counts one step and advances tNear by 0.01; once tNear has reached tFar, the
\* accumulated alpha has reached 0.95 or 200 steps are done, the only step left
\* writes the colour accumulated so far, without a further sample.
C22_MarchTerminates ==
    [][/\ marchI' <= 200
       /\ pc = "march" =>
            IF tNear >= tFar \/ colorAccum[2] >= 950 \/ marchI = 200
            THEN /\ pc' = "done"
                 /\ colorAccum' = colorAccum
                 /\ marchI' = marchI
                 /\ gl_FragColor' = colorAccum
            ELSE /\ pc' = "march"
                 /\ marchI' = marchI + 1
                 /\ tNear' = tNear + 10]_vars

\* C22 witness: a ray ended on alpha >= 0.95 before it reached tFar.
C22_Witness ==
    /\ pc = "done"
    /\ marchI > 0
    /\ marchI < 10
    /\ tNear < tFar
    /\ gl_FragColor[2] >= 950

\* C23 (as stated): with the 4 x 4 x 4 volume that is 0 except voxel
\* (2,2,2) = 255, threshold 10, opacity 1.0 and the camera of init, the pixel at
\* the screen centre ends with alpha > 0 and RGB > 0 and the pixels at the
\* corners end fully transparent.
C23_PointScenario ==
    (/\ pc = "done"
     /\ volumeData = PointVolume
     /\ threshold = 10 /\ opacity = 1000
     /\ zoom = 1000 /\ rotationX = 0 /\ rotationY = 0) =>
        /\ v_texCoord = <<500, 500>> => (gl_FragColor[2] > 0 /\ gl_FragColor[1] > 0)
        /\ v_texCoord = <<125, 125>> => gl_FragColor = <<0, 0>>

(***************************************************************************)
(* The mouse and wheel listeners of VolumeRaycaster (part_000 lines        *)
(* 297-336).  A listener runs to completion; an exception ends it and      *)
(* keeps the assignments made before it.                                   *)
(***************************************************************************)

\* The identifiers the listeners can resolve: the properties of the global
\* object they use.  No script of the program declares max or min.
GlobalNames == {"Math", "Uint8Array", "Float32Array", "requestAnimationFrame"}

\* Calling an identifier that resolves nowhere throws a ReferenceError.
ReferenceError(id) == id \notin GlobalNames

\* The statement v = max(lo, min(hi, v)) of lines 315 and 334.
ClampOrThrow(v, lo, hi) ==
    IF ReferenceError("max") \/ ReferenceError("min")
    THEN [thrown |-> TRUE, value |-> v]
    ELSE [thrown |-> FALSE, value |-> Max(lo, Min(hi, v))]

MouseEvent(type, x, y) == [type |-> type, clientX |-> x, clientY |-> y]

WheelEvent(dy) == [type |-> "wheel", deltaY |-> dy]

\* Pointer positions, in pixels.
Pointer == {0, 100, 200}

\* Wheel deltas.
WheelDeltas == {-1000, 500, 3000}

InitInput ==
    /\ pc = "listening"
    /\ ParserIdle
    /\ FolderIdle
    /\ AtlasIdle

\* mousedown (lines 299-303).
MouseDown ==
    /\ pc = "listening"
    /\ \E x \in Pointer, y \in Pointer :
          /\ event' = MouseEvent("mousedown", x, y)
          /\ lastMouseX' = x
          /\ lastMouseY' = y
    /\ isDragging' = TRUE
    /\ UNCHANGED <<cameraPosition, cameraRotation, cameraTarget, currentSlice, uniforms>>
    /\ UNCHANGED <<pc, parserVars, folderVars, atlasVars, cameraVars, fragVars>>

\* mousemove (lines 305-320): the rotation is updated, then line 315 either
\* clamps rotationX or throws before lastMouseX and lastMouseY are stored.
MouseMove ==
    /\ pc = "listening"
    /\ \E x \in Pointer, y \in Pointer :
          /\ event' = MouseEvent("mousemove", x, y)
          /\ IF isDragging
             THEN LET deltaX == x - lastMouseX
                      deltaY == y - lastMouseY
                      c == ClampOrThrow(rotationX + deltaY, -157, 157)
                  IN  /\ rotationY + deltaX \in -MaxTurn..MaxTurn
                      /\ rotationX + deltaY \in -MaxTurn..MaxTurn
                      /\ rotationY' = rotationY + deltaX
                      /\ rotationX' = c.value
                      /\ lastMouseX' = IF c.thrown THEN lastMouseX ELSE x
                      /\ lastMouseY' = IF c.thrown THEN lastMouseY ELSE y
             ELSE UNCHANGED <<rotationX, rotationY, lastMouseX, lastMouseY>>
    /\ UNCHANGED <<zoom, threshold, opacity, windowLevel, windowWidth, isDragging>>
    /\ UNCHANGED <<cameraPosition, cameraRotation, cameraTarget, currentSlice, uniforms>>
    /\ UNCHANGED <<pc, parserVars, folderVars, atlasVars, fragVars>>

\* mouseup (lines 322-324).
MouseUp ==
    /\ pc = "listening"
    /\ event' = [type |-> "mouseup"]
    /\ isDragging' = FALSE
    /\ UNCHANGED <<lastMouseX, lastMouseY>>
    /\ UNCHANGED <<cameraPosition, cameraRotation, cameraTarget, currentSlice, uniforms>>
    /\ UNCHANGED <<pc, parserVars, folderVars, atlasVars, cameraVars, fragVars>>

\* mouseleave (lines 326-328).
MouseLeave ==
    /\ pc = "listening"
    /\ event' = [type |-> "mouseleave"]
    /\ isDragging' = FALSE
    /\ UNCHANGED <<lastMouseX, lastMouseY>>
    /\ UNCHANGED <<cameraPosition, cameraRotation, cameraTarget, currentSlice, uniforms>>
    /\ UNCHANGED <<pc, parserVars, folderVars, atlasVars, cameraVars, fragVars>>

\* wheel (lines 330-335): zoom is updated, then line 334 clamps it or throws.
Wheel ==
    /\ pc = "listening"
    /\ \E dy \in WheelDeltas :
          /\ event' = WheelEvent(dy)
          /\ zoom + dy \in -MaxZoom..MaxZoom
          /\ zoom' = ClampOrThrow(zoom + dy, 100, 3000).value
    /\ UNCHANGED <<rotationX, rotationY, threshold, opacity, windowLevel, windowWidth>>
    /\ UNCHANGED <<isDragging, lastMouseX, lastMouseY>>
    /\ UNCHANGED <<cameraPosition, cameraRotation, cameraTarget, currentSlice, uniforms>>
    /\ UNCHANGED <<pc, parserVars, folderVars, atlasVars, fragVars>>

NextInput == MouseDown \/ MouseMove \/ MouseUp \/ MouseLeave \/ Wheel

SpecInput == InitInput /\ [][NextInput]_vars

(***************************************************************************)
(* Claims about the listeners of VolumeRaycaster (SpecInput).              *)
(***************************************************************************)

\* C24: after any sequence of wheel events on a VolumeRaycaster, starting
\* from zoom = 1.0, zoom is within [0.1, 3.0] in every reachable state.
C24_ZoomClamped == zoom >= 100 /\ zoom <= 3000

\* C29: a mousemove handled while isDragging is true ends with lastMouseX and
\* lastMouseY equal to the event's clientX and clientY, so the rotation added
\* by it is 0.01 times the pointer displacement since the previous event of
\* the drag; a mousemove while isDragging is false changes no camera field.
C29_DragTracksPointer ==
    [][event'.type = "mousemove" =>
          IF isDragging
          THEN /\ lastMouseX' = event'.clientX
               /\ lastMouseY' = event'.clientY
          ELSE UNCHANGED <<cameraVars, cameraPosition, cameraRotation,
                           cameraTarget, lastMouseX, lastMouseY>>]_vars

(***************************************************************************)
(* The camera of VolumeRenderer (src/volumerenderer.js lines 271-301 and   *)
(* 469-473).  Lengths are fixed-point numbers in thousandths.              *)
(***************************************************************************)

\* The value of 0 / 0.
NaN == "NaN"

Sub3(a, b) == <<a[1] - b[1], a[2] - b[2], a[3] - b[3]>>

\* Math.sqrt(dx*dx + dy*dy + dz*dz).
Length(v) == ISqrt(v[1] * v[1] + v[2] * v[2] + v[3] * v[3])

\* distanceFromTarget (lines 280-285).
distanceFromTarget(pos, target) == Length(Sub3(pos, target))

\* (dir[k] / len) * distance of lines 298-300, for len > 0.
Scaled(c, len, distance) == Mul(RoundDiv(c * 1000, len), distance)

\* setCameraDistance (lines 287-301): the new cameraPosition.  With len = 0
\* every component is 0 / 0.
setCameraDistance(pos, target, distance) ==
    LET dir == Sub3(pos, target)
        len == Length(dir)
    IN  IF len = 0
        THEN <<NaN, NaN, NaN>>
        ELSE <<target[1] + Scaled(dir[1], len, distance),
               target[2] + Scaled(dir[2], len, distance),
               target[3] + Scaled(dir[3], len, distance)>>

\* The clamped distance of the wheel listener (lines 274-276) without its
\* lower limit.
WheelDistance_NoFloor(d, deltaY) ==
    Min(15000, Mul(d, IF deltaY > 0 THEN 1100 ELSE 900))

\* The clamped distance of the wheel listener (lines 274-276).
WheelDistance(d, deltaY) ==
    Max(2000, Min(15000, Mul(d, IF deltaY > 0 THEN 1100 ELSE 900)))

InitCamera ==
    /\ pc = "camera"
    /\ ParserIdle
    /\ FolderIdle
    /\ AtlasIdle

\* wheel (lines 271-278).
WheelCamera ==
    /\ pc = "camera"
    /\ \E dy \in {-100, 0, 100} :
          /\ event' = WheelEvent(dy)
          /\ cameraPosition' =
                setCameraDistance(cameraPosition, cameraTarget,
                    WheelDistance(distanceFromTarget(cameraPosition, cameraTarget), dy))
    /\ UNCHANGED <<isDragging, lastMouseX, lastMouseY, cameraRotation, cameraTarget,
                   currentSlice, uniforms>>
    /\ UNCHANGED <<pc, parserVars, folderVars, atlasVars, cameraVars, fragVars>>

\* resetCamera (lines 469-473).
ResetCamera ==
    /\ pc = "camera"
    /\ cameraPosition' = <<0, 0, 5000>>
    /\ cameraRotation' = <<0, 0>>
    /\ cameraTarget' = <<0, 0, 0>>
    /\ UNCHANGED <<isDragging, lastMouseX, lastMouseY, currentSlice, uniforms, event>>
    /\ UNCHANGED <<pc, parserVars, folderVars, atlasVars, cameraVars, fragVars>>

NextCamera == WheelCamera \/ ResetCamera

SpecCamera == InitCamera /\ [][NextCamera]_vars

(***************************************************************************)
(* Claims about the camera of VolumeRenderer (SpecCamera).                 *)
(***************************************************************************)

\* The unit vector of v, for a v that is not zero.
Unit(v) == <<RoundDiv(v[1] * 1000, Length(v)), RoundDiv(v[2] * 1000, Length(v)),
             RoundDiv(v[3] * 1000, Length(v))>>

\* C25: after any sequence of wheel events and resetCamera calls on a
\* VolumeRenderer the distance between cameraPosition and cameraTarget is
\* within [2, 15], so the length setCameraDistance divides by is never zero,
\* and a wheel event leaves the direction from the target to the camera
\* unchanged.
C25_DistanceBand ==
    LET d == distanceFromTarget(cameraPosition, cameraTarget)
    IN  /\ d >= 2000
        /\ d <= 15000
        /\ Length(Sub3(cameraPosition, cameraTarget)) # 0
        /\ \A dy \in {-100, 0, 100} :
              LET moved == setCameraDistance(cameraPosition, cameraTarget,
                                             WheelDistance(d, dy))
              IN  Unit(Sub3(moved, cameraTarget)) = Unit(Sub3(cameraPosition, cameraTarget))

\* C25 witness: a wheel event towards the target was stopped at distance 2.
C25_Witness ==
    /\ pc = "camera"
    /\ event = WheelEvent(-100)
    /\ cameraPosition = <<0, 0, 2000>>
    /\ cameraTarget = <<0, 0, 0>>

(***************************************************************************)
(* render of VolumeRaycaster (part_000 lines 421-465), called by the       *)
(* animation loop of startRendering (lines 469-475) between any two tasks. *)
(***************************************************************************)

\* The layout uniforms and the texture of one draw call (lines 434-452).
RenderUniforms(tex, lay, data) ==
    IF tex # "null" /\ lay.defined
    THEN [drawn |-> TRUE, slices |-> lay.slices, textureWidth |-> lay.width,
          textureHeight |-> lay.height, volumeSize |-> lay.volumeSize,
          texture |-> data]
    ELSE [drawn |-> TRUE, slices |-> 0, textureWidth |-> 1, textureHeight |-> 1,
          volumeSize |-> <<1, 1, 1>>, texture |-> <<>>]

\* One animation frame.
Render ==
    /\ pc = "renderer"
    /\ uniforms' = RenderUniforms(volumeTexture, textureLayout, textureData)
    /\ UNCHANGED <<isDragging, lastMouseX, lastMouseY, cameraPosition, cameraRotation,
                   cameraTarget, currentSlice, event>>
    /\ UNCHANGED <<pc, parserVars, folderVars, atlasVars, cameraVars, fragVars>>

NextFrames == LoadVolume \/ Render

SpecFrames == InitAtlas /\ [][NextFrames]_vars

(***************************************************************************)
(* Claims about loadVolume and render (SpecFrames).                        *)
(***************************************************************************)

\* The layout a draw call was given.
LayoutDrawn(u) ==
    [defined |-> TRUE, width |-> u.textureWidth, height |-> u.textureHeight,
     slices |-> u.slices, volumeSize |-> u.volumeSize]

\* C26: in every interleaving of loadVolume calls and animation frames, a
\* frame drawn with a volume uses a layout and atlas texels that come from one
\* and the same loadVolume call, and after a later loadVolume the layout and
\* every texel of the atlas are those of the volume loaded last.
C26_FramesConsistent ==
    /\ (uniforms.drawn /\ uniforms.slices > 0) =>
          \E v \in Volumes :
              /\ LayoutDrawn(uniforms) = LayoutOf(v)
              /\ uniforms.texture = Textures[v]
    /\ volumeTexture # "null" =>
          /\ textureLayout = LayoutOf(volumeData)
          /\ textureData = Textures[volumeData]

\* C26 witness: a frame was drawn with a volume of depth 5, and a second
\* loadVolume has since replaced it with a smaller volume.
C26_Witness ==
    /\ uniforms.drawn
    /\ uniforms.slices = 5
    /\ volumeData.dimensions = <<1, 1, 2>>
    /\ Len(textureData) < Len(uniforms.texture)

(***************************************************************************)
(* SimpleVolumeRenderer (part_001): init, loadVolume, render and the       *)
(* listeners.                                                              *)
(***************************************************************************)

\* init (lines 14-37): setupTextures creates a texture (line 17 and lines
\* 156-158), and line 29 then overwrites this.volumeTexture with null.
InitSimple ==
    /\ pc = "simple"
    /\ ParserIdle
    /\ FolderIdle
    /\ AtlasIdle

\* loadVolume (lines 208-265): the atlas is built as in VolumeRaycaster and
\* uploaded to the texture bound from this.volumeTexture, which the method
\* never creates.
LoadVolumeSimple ==
    /\ pc = "simple"
    /\ \E v \in RayVolumes :
          /\ volumeData' = v
          /\ textureData' = texImage2D(volumeTexture, textureData, RayTextures[v])
          /\ textureLayout' = LayoutOf(v)
    /\ UNCHANGED <<volumeTexture, sample, inputVars>>
    /\ UNCHANGED <<pc, parserVars, folderVars, cameraVars, fragVars>>

\* The layout uniforms and the texture of one draw call (lines 297-313):
\* without a texture or a layout only u_slices is set.
RenderUniformsSimple(prev, tex, lay, data) ==
    IF tex # "null" /\ lay.defined
    THEN [drawn |-> TRUE, slices |-> lay.slices, textureWidth |-> lay.width,
          textureHeight |-> lay.height, volumeSize |-> lay.volumeSize,
          texture |-> data]
    ELSE IF prev.drawn THEN [prev EXCEPT !.slices = 0]
    ELSE [drawn |-> TRUE, slices |-> 0, textureWidth |-> 0, textureHeight |-> 0,
          volumeSize |-> <<0, 0, 0>>, texture |-> <<>>]

\* render (lines 283-321).
RenderSimple ==
    /\ pc = "simple"
    /\ uniforms' = RenderUniformsSimple(uniforms, volumeTexture, textureLayout, textureData)
    /\ UNCHANGED <<isDragging, lastMouseX, lastMouseY, cameraPosition, cameraRotation,
                   cameraTarget, currentSlice, event>>
    /\ UNCHANGED <<pc, parserVars, folderVars, atlasVars, cameraVars, fragVars>>

\* mousedown (lines 176-180).
MouseDownSimple ==
    /\ pc = "simple"
    /\ \E x \in Pointer, y \in Pointer :
          /\ event' = MouseEvent("mousedown", x, y)
          /\ lastMouseX' = x
          /\ lastMouseY' = y
    /\ isDragging' = TRUE
    /\ UNCHANGED <<cameraPosition, cameraRotation, cameraTarget, currentSlice, uniforms>>
    /\ UNCHANGED <<pc, parserVars, folderVars, atlasVars, cameraVars, fragVars>>

\* mousemove (lines 182-193).
MouseMoveSimple ==
    /\ pc = "simple"
    /\ \E x \in Pointer, y \in Pointer :
          /\ event' = MouseEvent("mousemove", x, y)
          /\ IF isDragging
             THEN LET deltaX == x - lastMouseX
                      deltaY == y - lastMouseY
                  IN  /\ cameraRotation[1] - deltaY \in -MaxTurn..MaxTurn
                      /\ cameraRotation[2] - deltaX \in -MaxTurn..MaxTurn
                      /\ cameraRotation' = <<cameraRotation[1] - deltaY,
                                             cameraRotation[2] - deltaX>>
                      /\ lastMouseX' = x
                      /\ lastMouseY' = y
             ELSE UNCHANGED <<cameraRotation, lastMouseX, lastMouseY>>
    /\ UNCHANGED <<isDragging, cameraPosition, cameraTarget, currentSlice, uniforms>>
    /\ UNCHANGED <<pc, parserVars, folderVars, atlasVars, cameraVars, fragVars>>

\* mouseup and mouseleave (lines 195-201).
MouseUpSimple ==
    /\ pc = "simple"
    /\ \E type \in {"mouseup", "mouseleave"} : event' = [type |-> type]
    /\ isDragging' = FALSE
    /\ UNCHANGED <<lastMouseX, lastMouseY>>
    /\ UNCHANGED <<cameraPosition, cameraRotation, cameraTarget, currentSlice, uniforms>>
    /\ UNCHANGED <<pc, parserVars, folderVars, atlasVars, cameraVars, fragVars>>

NextSimple ==
    LoadVolumeSimple \/ RenderSimple \/ MouseDownSimple \/ MouseMoveSimple \/ MouseUpSimple

SpecSimple == InitSimple /\ [][NextSimple]_vars

(***************************************************************************)
(* Claims about SimpleVolumeRenderer (SpecSimple).                         *)
(***************************************************************************)

\* C28: after construction followed by loadVolume(v) with depth >= 1 the
\* renderer's volumeTexture is not null and the next render() passes the
\* loaded layout (slices = depth) to the shader, not the placeholder
\* (slices = 0).
C28_TextureAfterLoad ==
    volumeData.dimensions[3] >= 1 =>
        /\ volumeTexture # "null"
        /\ RenderUniformsSimple(uniforms, volumeTexture, textureLayout,
                                textureData).slices = volumeData.dimensions[3]

(***************************************************************************)
(* SimpleSliceRenderer (src/volumerenderer.js lines 881-1225): the slice   *)
(* selection, loadVolume, render and the slice index of the shader.        *)
(***************************************************************************)

\* Math.max(0.0, Math.min(1.0, value)), in thousandths.
ClampSlice(value) == Max(0, Min(1000, value))

\* floor(u_currentSlice * u_slices) of the fragment shader (lines 958-959).
SliceFloor(cs, n) == (cs * n) \div 1000

\* The volumes offered to this renderer.
SliceVolumes == {v \in RayVolumes : v.dimensions[3] <= 3}

\* The values handed to setCurrentSlice, in thousandths.
SliceValues == {-500, 0, 250, 1000, 2000}

InitSlice ==
    /\ pc = "slice"
    /\ ParserIdle
    /\ FolderIdle
    /\ AtlasIdle

\* setCurrentSlice (lines 1181-1183).
SetCurrentSlice ==
    /\ pc = "slice"
    /\ \E value \in SliceValues : currentSlice' = ClampSlice(value)
    /\ UNCHANGED <<isDragging, lastMouseX, lastMouseY, cameraPosition, cameraRotation,
                   cameraTarget, uniforms, event>>
    /\ UNCHANGED <<pc, parserVars, folderVars, atlasVars, cameraVars, fragVars>>

\* mousedown (lines 1064-1068).
MouseDownSlice ==
    /\ pc = "slice"
    /\ \E x \in Pointer, y \in {0, 100} :
          /\ event' = MouseEvent("mousedown", x, y)
          /\ lastMouseX' = x
          /\ lastMouseY' = y
    /\ isDragging' = TRUE
    /\ UNCHANGED <<cameraPosition, cameraRotation, cameraTarget, currentSlice, uniforms>>
    /\ UNCHANGED <<pc, parserVars, folderVars, atlasVars, cameraVars, fragVars>>

\* mousemove (lines 1070-1081): a drag changes the slice by 0.005 per pixel.
MouseMoveSlice ==
    /\ pc = "slice"
    /\ \E x \in Pointer, y \in {0, 100} :
          /\ event' = MouseEvent("mousemove", x, y)
          /\ IF isDragging
             THEN /\ currentSlice' = ClampSlice(currentSlice + (x - lastMouseX) * 5)
                  /\ lastMouseX' = x
                  /\ lastMouseY' = y
             ELSE UNCHANGED <<currentSlice, lastMouseX, lastMouseY>>
    /\ UNCHANGED <<isDragging, cameraPosition, cameraRotation, cameraTarget, uniforms>>
    /\ UNCHANGED <<pc, parserVars, folderVars, atlasVars, cameraVars, fragVars>>

\* mouseup and mouseleave (lines 1083-1089).
MouseUpSlice ==
    /\ pc = "slice"
    /\ \E type \in {"mouseup", "mouseleave"} : event' = [type |-> type]
    /\ isDragging' = FALSE
    /\ UNCHANGED <<lastMouseX, lastMouseY>>
    /\ UNCHANGED <<cameraPosition, cameraRotation, cameraTarget, currentSlice, uniforms>>
    /\ UNCHANGED <<pc, parserVars, folderVars, atlasVars, cameraVars, fragVars>>

\* wheel (lines 1091-1095).
WheelSlice ==
    /\ pc = "slice"
    /\ \E dy \in {-100, 100} :
          /\ event' = WheelEvent(dy)
          /\ currentSlice' = ClampSlice(currentSlice + (IF dy > 0 THEN -50 ELSE 50))
    /\ UNCHANGED <<isDragging, lastMouseX, lastMouseY, cameraPosition, cameraRotation,
                   cameraTarget, uniforms>>
    /\ UNCHANGED <<pc, parserVars, folderVars, atlasVars, cameraVars, fragVars>>

\* loadVolume (lines 1098-1163): the texture is created when there is none.
LoadVolumeSlice ==
    /\ pc = "slice"
    /\ \E v \in SliceVolumes :
          /\ volumeData' = v
          /\ textureData' = texImage2D("texture", textureData, RayTextures[v])
          /\ textureLayout' = LayoutOf(v)
    /\ volumeTexture' = "texture"
    /\ UNCHANGED <<sample, inputVars>>
    /\ UNCHANGED <<pc, parserVars, folderVars, cameraVars, fragVars>>

\* The uniforms of one draw call (lines 1200-1217).
RenderUniformsSlice(prev, tex, lay, data, cs) ==
    IF tex # "null" /\ lay.defined
    THEN [drawn |-> TRUE, slices |-> lay.slices, textureWidth |-> lay.width,
          textureHeight |-> lay.height, volumeSize |-> lay.volumeSize,
          texture |-> data, currentSlice |-> cs]
    ELSE IF prev.drawn THEN [prev EXCEPT !.slices = 0, !.currentSlice = 500]
    ELSE [drawn |-> TRUE, slices |-> 0, textureWidth |-> 0, textureHeight |-> 0,
          volumeSize |-> <<0, 0, 0>>, texture |-> <<>>, currentSlice |-> 500]

\* render (lines 1185-1225).
RenderSlice ==
    /\ pc = "slice"
    /\ uniforms' = RenderUniformsSlice(uniforms, volumeTexture, textureLayout,
                                       textureData, currentSlice)
    /\ UNCHANGED <<isDragging, lastMouseX, lastMouseY, cameraPosition, cameraRotation,
                   cameraTarget, currentSlice, event>>
    /\ UNCHANGED <<pc, parserVars, folderVars, atlasVars, cameraVars, fragVars>>

NextSlice ==
    \/ SetCurrentSlice
    \/ MouseDownSlice
    \/ MouseMoveSlice
    \/ MouseUpSlice
    \/ WheelSlice
    \/ LoadVolumeSlice
    \/ RenderSlice

SpecSlice == InitSlice /\ [][NextSlice]_vars

(***************************************************************************)
(* Claims about SimpleSliceRenderer (SpecSlice).                           *)
(***************************************************************************)

\* C30: after any sequence of setCurrentSlice calls, drags and wheel events
\* currentSlice is within [0, 1], and the slice index of a frame drawn with a
\* volume, floor(currentSlice * depth), is a slice index in [0, depth - 1].
C30_SliceIndexValid ==
    /\ currentSlice >= 0
    /\ currentSlice <= 1000
    /\ (uniforms.drawn /\ uniforms.slices > 0) =>
          /\ SliceFloor(uniforms.currentSlice, uniforms.slices) >= 0
          /\ SliceFloor(uniforms.currentSlice, uniforms.slices) <= uniforms.slices - 1

====
